---- MODULE Spec2Model ----
(***************************************************************************)
(* urlpather: the typed single-segment matcher.                            *)
(*                                                                         *)
(* Text is modelled as a sequence of one-character strings, so that        *)
(* equality, emptiness and the two parsers (f64 and civil date) work on    *)
(* the characters of the input as the code does.  Every operation of the   *)
(* crate is a pure function; a behaviour is one call: Init draws the call  *)
(* (operation and arguments) and the operation's action computes its       *)
(* result.  MatchError::with_name may be applied repeatedly to its own     *)
(* result.                                                                 *)
(***************************************************************************)
EXTENDS Integers, Sequences, FiniteSets, TLC

VARIABLES call, result, applied

vars == <<call, result, applied>>

(* ------------------------------ bounds -------------------------------- *)

\* Longest run of free characters appended to a stem to form an input.
MaxSuffixLen == 2

\* How many times with_name is applied in a row to one error.
MaxAnnotations == 2

(* ------------------------------- text --------------------------------- *)

Digits == {"0", "1", "2", "3", "4", "5", "6", "7", "8", "9"}

IsDigit(c) == c \in Digits

DigitVal(c) ==
    CASE c = "0" -> 0 [] c = "1" -> 1 [] c = "2" -> 2 [] c = "3" -> 3
      [] c = "4" -> 4 [] c = "5" -> 5 [] c = "6" -> 6 [] c = "7" -> 7
      [] c = "8" -> 8 [] c = "9" -> 9

UpperLetters ==
    <<"A", "B", "C", "D", "E", "F", "G", "H", "I", "J", "K", "L", "M",
      "N", "O", "P", "Q", "R", "S", "T", "U", "V", "W", "X", "Y", "Z">>

LowerLetters ==
    <<"a", "b", "c", "d", "e", "f", "g", "h", "i", "j", "k", "l", "m",
      "n", "o", "p", "q", "r", "s", "t", "u", "v", "w", "x", "y", "z">>

\* ASCII lower-casing of one character.
LowerChar(c) ==
    IF \E i \in 1..26 : UpperLetters[i] = c
    THEN LowerLetters[CHOOSE i \in 1..26 : UpperLetters[i] = c]
    ELSE c

LowerText(s) == [i \in 1..Len(s) |-> LowerChar(s[i])]

\* s without its first n characters.
Drop(s, n) == SubSeq(s, n + 1, Len(s))

\* The first n characters of s.
Take(s, n) == SubSeq(s, 1, n)

RECURSIVE DigitRun(_)
\* Length of the longest prefix of s made of ASCII digits.
DigitRun(s) ==
    IF s # <<>> /\ IsDigit(Head(s)) THEN 1 + DigitRun(Tail(s)) ELSE 0

RECURSIVE DigitsToNat(_)
\* The number a (short) digit string denotes.
DigitsToNat(s) ==
    IF s = <<>> THEN 0
    ELSE 10 * DigitsToNat(Take(s, Len(s) - 1)) + DigitVal(s[Len(s)])

RECURSIVE StripLeadingZeros(_)
StripLeadingZeros(s) ==
    IF s # <<>> /\ Head(s) = "0" THEN StripLeadingZeros(Tail(s)) ELSE s

RECURSIVE StripTrailingZeros(_)
StripTrailingZeros(s) ==
    IF s # <<>> /\ s[Len(s)] = "0"
    THEN StripTrailingZeros(Take(s, Len(s) - 1))
    ELSE s

(* --------------------------- value domain ----------------------------- *)

\* enum SegType
SegType == {"Number", "String", "Date"}

\* Option<String>
None == <<>>

Some(n) == <<n>>

\* enum MatchValue
MVString(s) == [tag |-> "String", text |-> s]

MVNumber(f) == [tag |-> "Number", num |-> f]

MVDate(d) == [tag |-> "Date", date |-> d]

MVTerminus == [tag |-> "Terminus"]

\* MatchValue::from_str: input.to_string(), the same characters.
from_str(input) == MVString(input)

\* MatchValue::from_number
from_number(f) == MVNumber(f)

\* MatchValue::from_date
from_date(d) == MVDate(d)

\* new_named losing the name it is given.
new_named_dropping_name(value, name) == [value |-> value, name |-> None]

\* struct MatchResult and its three constructors
new_named(value, name) == [value |-> value, name |-> Some(name)]

new_unnamed(value) == [value |-> value, name |-> None]

terminus == [value |-> MVTerminus, name |-> None]

\* enum MatchError
MatchError(expected, got) ==
    [kind |-> "MatchError", expected |-> expected, got |-> got]

NamedMatchError(name, expected, got) ==
    [kind |-> "NamedMatchError", name |-> name,
     expected |-> expected, got |-> got]

\* Result<T, E>, and the state of a call that has not run yet.
Ok(v) == [state |-> "ok", val |-> v]

Err(e) == [state |-> "err", err |-> e]

Pending == [state |-> "pending"]

\* with_name overwriting the name of an error that already has one.
with_name_overwriting(self, name) ==
    NamedMatchError(name, self.expected, self.got)

\* MatchError::with_name
with_name(self, name) ==
    IF self.kind = "MatchError"
    THEN NamedMatchError(name, self.expected, self.got)
    ELSE self

\* The error passed on without its annotation.
map_err_unannotated(r, name) == r

\* Result::map_err(|e| e.with_name(name))
map_err_with_name(r, name) ==
    IF r.state = "err" THEN Err(with_name(r.err, name)) ELSE r

(* ------------------------ str::parse::<f64> --------------------------- *)
(* The standard library's decimal-to-float conversion, as match_number     *)
(* calls it.  Its grammar, on the whole input and nothing else:            *)
(*   Float  ::= Sign? ( 'inf' | 'infinity' | 'nan' | Number )              *)
(*   Number ::= ( Digit+ | Digit+ '.' Digit* | Digit* '.' Digit+ ) Exp?    *)
(*   Exp    ::= 'e' Sign? Digit+         (letters in either case)          *)
(* A finite result is kept as its exact decimal value: the significant     *)
(* digits without leading or trailing zeros and the power of ten of the    *)
(* last one.  Two inputs of at most 15 significant digits denote the same  *)
(* f64 exactly when they denote the same decimal, provided the value is    *)
(* in the normal range; a decimal exponent of 309 or more overflows to     *)
(* infinity and one of -325 or less underflows to zero.                    *)

F64NaN(neg) == [class |-> "nan", neg |-> neg]

F64Inf(neg) == [class |-> "inf", neg |-> neg]

F64Finite(neg, digits, scale) ==
    [class |-> "finite", neg |-> neg, digits |-> digits, scale |-> scale]

\* Exponent accumulation saturates: digits are ignored once it passed 0x10000.
ExpSaturation == 65536

RECURSIVE ExpAccumulate(_, _)
ExpAccumulate(ds, acc) ==
    IF ds = <<>> THEN acc
    ELSE ExpAccumulate(Tail(ds),
                       IF acc < ExpSaturation
                       THEN 10 * acc + DigitVal(Head(ds)) ELSE acc)

\* parse_scientific: Sign? Digit+ after the 'e'.
ParseScientific(s) ==
    LET signed == s # <<>> /\ Head(s) \in {"-", "+"}
        negative == s # <<>> /\ Head(s) = "-"
        t == IF signed THEN Tail(s) ELSE s
        n == DigitRun(t)
        e == ExpAccumulate(Take(t, n), 0)
    IN  IF n = 0 THEN [ok |-> FALSE]
        ELSE [ok |-> TRUE, exp |-> IF negative THEN -e ELSE e,
              rest |-> Drop(t, n)]

\* parse_partial_number: the longest number at the start of s.
ParsePartialNumber(s) ==
    LET n1 == DigitRun(s)
        s1 == Drop(s, n1)
        hasDot == s1 # <<>> /\ Head(s1) = "."
        s2 == IF hasDot THEN Tail(s1) ELSE s1
        n2 == IF hasDot THEN DigitRun(s2) ELSE 0
        s3 == Drop(s2, n2)
        hasE == s3 # <<>> /\ Head(s3) \in {"e", "E"}
        sci == ParseScientific(Tail(s3))
    IN  IF n1 + n2 = 0 THEN [ok |-> FALSE]
        ELSE IF hasE
        THEN IF sci.ok
             THEN [ok |-> TRUE, int |-> Take(s, n1), frac |-> Take(s2, n2),
                   exp |-> sci.exp, rest |-> sci.rest]
             ELSE [ok |-> FALSE]
        ELSE [ok |-> TRUE, int |-> Take(s, n1), frac |-> Take(s2, n2),
              exp |-> 0, rest |-> s3]

\* parse_inf_nan: the whole of s, in either case.
ParseInfNan(s, neg) ==
    LET l == LowerText(s)
    IN  IF l = <<"n", "a", "n">> THEN [ok |-> TRUE, val |-> F64NaN(neg)]
        ELSE IF l = <<"i", "n", "f">>
                \/ l = <<"i", "n", "f", "i", "n", "i", "t", "y">>
        THEN [ok |-> TRUE, val |-> F64Inf(neg)]
        ELSE [ok |-> FALSE]

\* Largest and smallest decimal exponent (of the first significant digit)
\* whose every value is finite, respectively non-zero.
F64MaxExp10 == 308

F64MinExp10 == -324

\* The f64 nearest to (int.frac) * 10^exp.
ToF64(neg, int, frac, exp) ==
    LET all == StripLeadingZeros(int \o frac)
        sig == StripTrailingZeros(all)
        scale == exp - Len(frac) + (Len(all) - Len(sig))
        lead == scale + Len(sig) - 1
    IN  IF sig = <<>> THEN F64Finite(neg, <<>>, 0)
        ELSE IF lead > F64MaxExp10 THEN F64Inf(neg)
        ELSE IF lead < F64MinExp10 THEN F64Finite(neg, <<>>, 0)
        ELSE F64Finite(neg, sig, scale)

\* <f64 as FromStr>::from_str
ParseF64(input) ==
    LET signed == input # <<>> /\ Head(input) \in {"-", "+"}
        neg == input # <<>> /\ Head(input) = "-"
        s == IF signed THEN Tail(input) ELSE input
        num == ParsePartialNumber(s)
        special == ParseInfNan(s, neg)
    IN  IF s = <<>> THEN [ok |-> FALSE]
        ELSE IF num.ok /\ num.rest = <<>>
        THEN [ok |-> TRUE, val |-> ToF64(neg, num.int, num.frac, num.exp)]
        ELSE special

(* ------------------ DATE_PARSER.parse_date (jiff) --------------------- *)
(* The Temporal ISO 8601 grammar of jiff's DateTimeParser, as match_date   *)
(* calls it: a calendar date, then optionally a separator with a time of   *)
(* day and a UTC offset, and nothing left over.  parse_date returns the    *)
(* date alone and drops the time and a numeric offset; it refuses the      *)
(* Zulu offset.  Bracketed annotations ("[Europe/Paris]") are not          *)
(* modelled: no input enumerated here holds a '['.                         *)

ParseFail == [ok |-> FALSE]

\* parse::split(input, n) followed by parse::i64: exactly n digits.
SplitDigits(s, n) ==
    IF Len(s) >= n /\ \A i \in 1..n : IsDigit(s[i])
    THEN [ok |-> TRUE, val |-> DigitsToNat(Take(s, n)), rest |-> Drop(s, n)]
    ELSE ParseFail

\* t::Year, t::Month, t::Day, t::Hour, t::Minute, t::Second ranges
YearMax == 9999

MonthMax == 12

DayMax == 31

HourMax == 23

MinuteMax == 59

\* A second of 60 (a leap second) is accepted and clamped.
SecondMax == 60

\* Hours of a numeric UTC offset.
OffsetHourMax == 25

\* Digits of a fractional second.
FractionMax == 9

IsLeapYear(y) == y % 4 = 0 /\ (y % 100 # 0 \/ y % 400 = 0)

DaysInMonth(y, m) ==
    IF m = 2 THEN (IF IsLeapYear(y) THEN 29 ELSE 28)
    ELSE IF m \in {4, 6, 9, 11} THEN 30
    ELSE 31

\* parse_year: four digits, or a sign and six digits ("-000000" refused).
YearFromDigits(signed, sign, y) ==
    IF ~y.ok \/ y.val > YearMax THEN ParseFail
    ELSE IF signed /\ sign = -1 /\ y.val = 0 THEN ParseFail
    ELSE [ok |-> TRUE, val |-> sign * y.val, rest |-> y.rest]

ParseYear(s) ==
    IF s # <<>> /\ Head(s) \in {"+", "-"}
    THEN YearFromDigits(TRUE, IF Head(s) = "-" THEN -1 ELSE 1,
                        SplitDigits(Tail(s), 6))
    ELSE YearFromDigits(FALSE, 1, SplitDigits(s, 4))

\* Whether the next character is c.
StartsWith(s, c) == s # <<>> /\ Head(s) = c

\* parse_date_separator: '-' after the year decides the format for both.
ParseDateSeparator(s, extended) ==
    IF ~extended
    THEN (IF StartsWith(s, "-") THEN ParseFail ELSE [ok |-> TRUE, rest |-> s])
    ELSE IF StartsWith(s, "-") THEN [ok |-> TRUE, rest |-> Tail(s)]
    ELSE ParseFail

\* parse_date_spec, step by step as its early returns go: the day, and
\* Date::new_ranged's calendar check.
DateFromDay(year, month, d) ==
    IF ~d.ok \/ d.val < 1 \/ d.val > DayMax THEN ParseFail
    ELSE IF d.val > DaysInMonth(year, month) THEN ParseFail
    ELSE [ok |-> TRUE,
          date |-> [year |-> year, month |-> month, day |-> d.val],
          rest |-> d.rest]

DateFromSep2(year, month, sep2) ==
    IF ~sep2.ok THEN ParseFail
    ELSE DateFromDay(year, month, SplitDigits(sep2.rest, 2))

DateFromMonth(year, extended, m) ==
    IF ~m.ok \/ m.val < 1 \/ m.val > MonthMax THEN ParseFail
    ELSE DateFromSep2(year, m.val, ParseDateSeparator(m.rest, extended))

DateFromSep1(year, extended, sep1) ==
    IF ~sep1.ok THEN ParseFail
    ELSE DateFromMonth(year, extended, SplitDigits(sep1.rest, 2))

DateFromYear(y) ==
    IF ~y.ok THEN ParseFail
    ELSE DateFromSep1(y.val, StartsWith(y.rest, "-"),
                      ParseDateSeparator(y.rest, StartsWith(y.rest, "-")))

\* parse_date_spec
ParseDateSpec(s) == DateFromYear(ParseYear(s))

\* parse_time_separator / parse_separator: whether another component follows.
ParseTimeSeparator(s, extended) ==
    IF ~extended
    THEN [more |-> Len(s) >= 2 /\ IsDigit(s[1]) /\ IsDigit(s[2]), rest |-> s]
    ELSE IF StartsWith(s, ":") THEN [more |-> TRUE, rest |-> Tail(s)]
    ELSE [more |-> FALSE, rest |-> s]

\* The digits after a decimal separator, at most nine of them taken.
FractionFromDigits(s, n) ==
    IF n = 0 THEN ParseFail
    ELSE [ok |-> TRUE, rest |-> Drop(s, IF n > FractionMax THEN FractionMax ELSE n)]

\* parse_temporal_fraction: '.' or ',' and one to nine digits.
ParseFraction(s) ==
    IF s = <<>> \/ Head(s) \notin {".", ","} THEN [ok |-> TRUE, rest |-> s]
    ELSE FractionFromDigits(Tail(s), DigitRun(Tail(s)))

\* hh[:mm[:ss[.f]]] or hh[mm[ss[.f]]] with the given range of the first
\* component: the time of day and the numeric offset share this shape.
ClockFromSecond(se, secondMax) ==
    IF ~se.ok \/ se.val > secondMax THEN ParseFail
    ELSE ParseFraction(se.rest)

ClockFromSepS(sepS, secondMax) ==
    IF ~sepS.more THEN [ok |-> TRUE, rest |-> sepS.rest]
    ELSE ClockFromSecond(SplitDigits(sepS.rest, 2), secondMax)

ClockFromMinute(extended, mi, secondMax) ==
    IF ~mi.ok \/ mi.val > MinuteMax THEN ParseFail
    ELSE ClockFromSepS(ParseTimeSeparator(mi.rest, extended), secondMax)

ClockFromSepM(extended, sepM, secondMax) ==
    IF ~sepM.more THEN [ok |-> TRUE, rest |-> sepM.rest]
    ELSE ClockFromMinute(extended, SplitDigits(sepM.rest, 2), secondMax)

ClockFromFirst(h, firstMax, secondMax) ==
    IF ~h.ok \/ h.val > firstMax THEN ParseFail
    ELSE ClockFromSepM(StartsWith(h.rest, ":"),
                       ParseTimeSeparator(h.rest, StartsWith(h.rest, ":")),
                       secondMax)

ParseClock(s, firstMax, secondMax) ==
    ClockFromFirst(SplitDigits(s, 2), firstMax, secondMax)

\* parse_time_spec
ParseTimeSpec(s) == ParseClock(s, HourMax, SecondMax)

\* The numeric offset after its sign.
OffsetFromClock(c) ==
    IF c.ok THEN [ok |-> TRUE, zulu |-> FALSE, rest |-> c.rest] ELSE ParseFail

\* parse_offset_maybe: Z, or a sign and a clock; absent otherwise.
ParseOffsetMaybe(s) ==
    IF s = <<>> \/ Head(s) \notin {"z", "Z", "+", "-"}
    THEN [ok |-> TRUE, zulu |-> FALSE, rest |-> s]
    ELSE IF Head(s) \in {"z", "Z"}
    THEN [ok |-> TRUE, zulu |-> TRUE, rest |-> Tail(s)]
    ELSE OffsetFromClock(ParseClock(Tail(s), OffsetHourMax, MinuteMax))

\* parse_temporal_datetime: an offset is parsed only after a time.
DateTimeFromOffset(date, o) ==
    IF ~o.ok THEN ParseFail
    ELSE [ok |-> TRUE, date |-> date, zulu |-> o.zulu, rest |-> o.rest]

DateTimeFromTime(date, t) ==
    IF ~t.ok THEN ParseFail
    ELSE DateTimeFromOffset(date, ParseOffsetMaybe(t.rest))

DateTimeFromDate(d) ==
    IF ~d.ok THEN ParseFail
    ELSE IF d.rest = <<>> \/ Head(d.rest) \notin {" ", "T", "t"}
    THEN [ok |-> TRUE, date |-> d.date, zulu |-> FALSE, rest |-> d.rest]
    ELSE DateTimeFromTime(d.date, ParseTimeSpec(Tail(d.rest)))

ParseTemporalDateTime(s) == DateTimeFromDate(ParseDateSpec(s))

\* DateTimeParser::parse_date: the whole input, and no Zulu offset.
DateFromParsed(p) ==
    IF ~p.ok THEN ParseFail
    ELSE IF p.rest # <<>> THEN ParseFail
    ELSE IF p.zulu THEN ParseFail
    ELSE [ok |-> TRUE, date |-> p.date]

ParseDate(input) == DateFromParsed(ParseTemporalDateTime(input))

(* --------------------------- coercion engine -------------------------- *)

NumberLabel == <<"n", "u", "m", "b", "e", "r">>

DateLabel == <<"d", "a", "t", "e">>

StringLabel == <<"s", "t", "r", "i", "n", "g">>

TerminusLabel == <<"<", "T", "e", "r", "m", "i", "n", "u", "s", ">">>

\* match_string refusing the empty string.
match_string_nonempty(input) ==
    IF input = <<>> THEN Err(MatchError(StringLabel, input))
    ELSE Ok(from_str(input))

\* SegType::match_string
match_string(input) == Ok(from_str(input))

\* SegType::match_number
match_number(input) ==
    LET num == ParseF64(input)
    IN  IF num.ok THEN Ok(from_number(num.val))
        ELSE Err(MatchError(NumberLabel, input))

\* SegType::match_date
match_date(input) ==
    LET parsed == ParseDate(input)
    IN  IF parsed.ok THEN Ok(from_date(parsed.date))
        ELSE Err(MatchError(DateLabel, input))

\* The dispatch with the Date arm calling the String coercion.
SegType_match_segment_wrong_arm(self, input) ==
    CASE self = "String" -> match_string(input)
      [] self = "Number" -> match_number(input)
      [] self = "Date" -> match_string(input)

\* SegType::match_segment
SegType_match_segment(self, input) ==
    CASE self = "String" -> match_string(input)
      [] self = "Number" -> match_number(input)
      [] self = "Date" -> match_date(input)

(* --------------------------- template segment ------------------------- *)

\* Var::new
Var(name, seg_type) == [name |-> name, seg_type |-> seg_type]

\* enum Segment
Static(s) == [variant |-> "Static", lit |-> s]

SegVar(v) == [variant |-> "Var", v |-> v]

SegTerminus == [variant |-> "Terminus"]

\* The Static arm accepting any input that starts with the literal.
MatchStatic_prefix(s, input) ==
    IF Len(input) >= Len(s) /\ Take(input, Len(s)) = s
    THEN Ok(new_unnamed(from_str(input)))
    ELSE Err(MatchError(s, input))

\* The Static arm of Segment::match_segment
MatchStatic(s, input) ==
    IF input = s THEN Ok(new_unnamed(from_str(input)))
    ELSE Err(MatchError(s, input))

\* The Terminus arm returning the empty text instead of the sentinel value.
MatchTerminus_as_text(input) ==
    IF input = <<>> THEN Ok(new_unnamed(from_str(input)))
    ELSE Err(MatchError(TerminusLabel, input))

\* The Terminus arm of Segment::match_segment
MatchTerminus(input) ==
    IF input = <<>> THEN Ok(terminus)
    ELSE Err(MatchError(TerminusLabel, input))

\* The Var arm of Segment::match_segment
MatchVar(v, input) ==
    LET parsed == map_err_with_name(SegType_match_segment(v.seg_type, input),
                                    v.name)
    IN  IF parsed.state = "err" THEN parsed
        ELSE Ok(new_named(parsed.val, v.name))

\* Segment::match_segment
Segment_match_segment(self, input) ==
    CASE self.variant = "Static" -> MatchStatic(self.lit, input)
      [] self.variant = "Terminus" -> MatchTerminus(input)
      [] self.variant = "Var" -> MatchVar(self.v, input)

(* ------------------------- segment-type tokens ------------------------ *)

\* The token table read without regard to case.
try_from_ignoring_case(value) ==
    CASE LowerText(value) = <<>> -> Ok("String")
      [] LowerText(value) = NumberLabel -> Ok("Number")
      [] LowerText(value) = StringLabel -> Ok("String")
      [] LowerText(value) = DateLabel -> Ok("Date")
      [] OTHER -> Err("InvalidSegmentType")

\* impl TryFrom<&str> for SegType
try_from(value) ==
    CASE value = <<>> -> Ok("String")
      [] value = NumberLabel -> Ok("Number")
      [] value = StringLabel -> Ok("String")
      [] value = DateLabel -> Ok("Date")
      [] OTHER -> Err("InvalidSegmentType")

(* ------------------------------ the inputs ---------------------------- *)

\* Characters appended freely to the stems.
SuffixAlphabet == {"0", "1", ".", "-", "e", "T"}

Suffixes == UNION {[1..k -> SuffixAlphabet] : k \in 0..MaxSuffixLen}

\* The strings of the crate's tests and of its token table, and the shapes
\* the two parsers tell apart.
Stems ==
    { <<>>,
      <<"h", "e", "l", "l", "o">>,
      <<"w", "o", "r", "l", "d">>,
      <<"1", "2", "3", ".", "4", "5">>,
      <<"1", "2", "3", ".", "4", "5", ".", "6", "7">>,
      <<"+">>,
      <<"n", "a", "n">>,
      <<"I", "n", "f">>,
      <<"i", "n", "f", "i", "n", "i", "t", "y">>,
      NumberLabel, StringLabel, DateLabel,
      <<"D", "a", "t", "e">>,
      <<" ", "d", "a", "t", "e">>,
      <<"2", "0", "2", "1", "-", "0", "1", "-", "0", "1">>,
      <<"2", "0", "2", "1", "-", "0", "1", "-", "0", "1", "-", "0", "1">>,
      <<"2", "0", "2", "1", "0", "1", "0", "1">>,
      <<"2", "0", "2", "1", "-", "0", "2", "-", "2", "9">>,
      <<"2", "0", "2", "0", "-", "0", "2", "-", "2", "9">>,
      <<"2", "0", "2", "1", "-", "0", "1", "-", "0", "1", "T", "0", "1", ":",
        "0", "0">>,
      <<"2", "0", "2", "1", "-", "0", "1", "-", "0", "1", "T", "0", "1", ":",
        "0", "0", ":", "0", "0">>,
      <<"2", "0", "2", "1", "-", "0", "1", "-", "0", "1", "T", "0", "1", ":",
        "0", "0", "Z">> }

Inputs == {st \o su : st \in Stems, su \in Suffixes}

Names == { <<"n", "u", "m">>, <<"i", "d">> }

StaticLiterals ==
    { <<>>,
      <<"h", "e", "l", "l", "o">>,
      <<"2", "0", "2", "1", "-", "0", "1", "-", "0", "1">> }

Segments ==
    {Static(s) : s \in StaticLiterals}
        \cup {SegTerminus}
        \cup {SegVar(Var(n, ty)) : n \in Names, ty \in SegType}

\* The errors with_name is applied to.
ErrorTexts == { NumberLabel, <<"w", "o", "r", "l", "d">>, <<>> }

Errors ==
    {MatchError(e, g) : e \in ErrorTexts, g \in ErrorTexts}
        \cup {NamedMatchError(n, e, g) :
                n \in Names, e \in ErrorTexts, g \in ErrorTexts}

Calls ==
    [op : {"match_string", "match_number", "match_date", "try_from"},
     input : Inputs]
        \cup [op : {"match_segment"}, seg : Segments, input : Inputs]
        \cup [op : {"with_name"}, err : Errors]

(* --------------------------- the state machine ------------------------ *)

\* The value a call returned that is not a Result (with_name's Self).
Returned(v) == [state |-> "returned", val |-> v]

Init ==
    /\ call \in Calls
    /\ result = Pending
    /\ applied = <<>>

MatchString ==
    /\ call.op = "match_string"
    /\ result = Pending
    /\ result' = match_string(call.input)
    /\ UNCHANGED <<call, applied>>

MatchNumber ==
    /\ call.op = "match_number"
    /\ result = Pending
    /\ result' = match_number(call.input)
    /\ UNCHANGED <<call, applied>>

MatchDate ==
    /\ call.op = "match_date"
    /\ result = Pending
    /\ result' = match_date(call.input)
    /\ UNCHANGED <<call, applied>>

MatchSegment ==
    /\ call.op = "match_segment"
    /\ result = Pending
    /\ result' = Segment_match_segment(call.seg, call.input)
    /\ UNCHANGED <<call, applied>>

TryFrom ==
    /\ call.op = "try_from"
    /\ result = Pending
    /\ result' = try_from(call.input)
    /\ UNCHANGED <<call, applied>>

\* with_name consumes the error and returns one, which may be annotated again.
WithName(name) ==
    /\ call.op = "with_name"
    /\ Len(applied) < MaxAnnotations
    /\ result' = Returned(with_name(IF result = Pending THEN call.err
                                    ELSE result.val, name))
    /\ applied' = Append(applied, name)
    /\ UNCHANGED call

Next ==
    \/ MatchString
    \/ MatchNumber
    \/ MatchDate
    \/ MatchSegment
    \/ TryFrom
    \/ \E name \in Names : WithName(name)

Spec == Init /\ [][Next]_vars

(* ------------------------------ properties ---------------------------- *)

Hello == <<"h", "e", "l", "l", "o">>

World == <<"w", "o", "r", "l", "d">>

Num == <<"n", "u", "m">>

Id == <<"i", "d">>

Text12345 == <<"1", "2", "3", ".", "4", "5">>

Text20210101 == <<"2", "0", "2", "1", "-", "0", "1", "-", "0", "1">>

\* A call of Segment::match_segment that has returned.
SegmentDone == call.op = "match_segment" /\ result # Pending

\* Coercion of input under a segment type, by the per-type functions.
Coerce(ty, input) ==
    IF ty = "String" THEN match_string(input)
    ELSE IF ty = "Number" THEN match_number(input)
    ELSE match_date(input)

\* C1: a Var segment matches exactly when the coercion of the input under its
\* type succeeds; on success the result carries the coerced value and
\* name = Some(name), on failure the error is NamedMatchError(name, expected,
\* got) with the coercion failure's expected and got.  Var{num, Number} on
\* "world" gives Named("num", "number", "world") and on "123.45" the number
\* 123.45 named "num".
C1_VarDelegatesToCoercion ==
    (SegmentDone /\ call.seg.variant = "Var") =>
        LET v == call.seg.v
            c == Coerce(v.seg_type, call.input)
        IN  /\ (result.state = "ok") <=> (c.state = "ok")
            /\ c.state = "ok" => result = Ok([value |-> c.val, name |-> Some(v.name)])
            /\ c.state = "err" =>
                   result = Err(NamedMatchError(v.name, c.err.expected, c.err.got))
            /\ (v = Var(Num, "Number") /\ call.input = World) =>
                   result = Err(NamedMatchError(Num, NumberLabel, World))
            /\ (v = Var(Num, "Number") /\ call.input = Text12345) =>
                   result = Ok([value |-> MVNumber(F64Finite(FALSE,
                                    <<"1", "2", "3", "4", "5">>, -2)),
                                name |-> Some(Num)])

C1_Witness ==
    /\ SegmentDone
    /\ call.seg = SegVar(Var(Num, "Number"))
    /\ call.input = World
    /\ result.state = "err"
    /\ result.err.kind = "NamedMatchError"

\* C2: a Static segment matches if and only if the input equals the literal
\* exactly; the match is unnamed with value String(input), the failure is the
\* unnamed MatchError(literal, input).
C2_StaticExactMatch ==
    (SegmentDone /\ call.seg.variant = "Static") =>
        /\ (result.state = "ok") <=> (call.input = call.seg.lit)
        /\ result.state = "ok" =>
               result.val = [value |-> MVString(call.input), name |-> None]
        /\ result.state # "ok" =>
               result = Err(MatchError(call.seg.lit, call.input))

C2_Witness ==
    /\ SegmentDone
    /\ call.seg = Static(Hello)
    /\ call.input = Hello
    /\ result = Ok([value |-> MVString(Hello), name |-> None])

\* C3: the Terminus segment matches if and only if the input is empty; the
\* match is unnamed with value Terminus, the failure is the unnamed
\* MatchError("<Terminus>", input).
C3_TerminusMatchesEmpty ==
    (SegmentDone /\ call.seg.variant = "Terminus") =>
        /\ (result.state = "ok") <=> (call.input = <<>>)
        /\ result.state = "ok" =>
               result.val = [value |-> MVTerminus, name |-> None]
        /\ result.state # "ok" =>
               result = Err(MatchError(TerminusLabel, call.input))

C3_Witness ==
    /\ SegmentDone
    /\ call.seg = SegTerminus
    /\ call.input = <<>>
    /\ result.state = "ok"
    /\ result.val.value = MVTerminus

IsDigits(s) == \A i \in 1..Len(s) : IsDigit(s[i])

\* Digit+ | Digit+ '.' Digit* | Digit* '.' Digit+
IsDecimalMantissa(s) ==
    \/ s # <<>> /\ IsDigits(s)
    \/ \E k \in 1..Len(s) :
           /\ s[k] = "."
           /\ IsDigits(Take(s, k - 1))
           /\ IsDigits(Drop(s, k))
           /\ Len(s) > 1

\* Nothing, or 'e' Sign? Digit+
IsDecimalExponent(s) ==
    \/ s = <<>>
    \/ /\ Head(s) \in {"e", "E"}
       /\ LET t == Tail(s)
              u == IF t # <<>> /\ Head(t) \in {"+", "-"} THEN Tail(t) ELSE t
          IN  u # <<>> /\ IsDigits(u)

\* A decimal floating-point literal: an optional sign, digits with an optional
\* decimal point, an optional exponent, and nothing else.
IsDecimalFloatLiteral(s) ==
    LET u == IF s # <<>> /\ Head(s) \in {"+", "-"} THEN Tail(s) ELSE s
    IN  \E k \in 1..Len(u) :
            IsDecimalMantissa(Take(u, k)) /\ IsDecimalExponent(Drop(u, k))

\* C4: number coercion succeeds if and only if the entire input is a valid
\* decimal floating-point literal, and every other input fails with the
\* unnamed MatchError("number", input).
C4_NumberIffDecimalLiteral ==
    (call.op = "match_number" /\ result # Pending) =>
        /\ (result.state = "ok") <=> IsDecimalFloatLiteral(call.input)
        /\ ~IsDecimalFloatLiteral(call.input) =>
               result = Err(MatchError(NumberLabel, call.input))

\* The entire input is a calendar date: year, month and day of the date
\* grammar, a day the calendar has, and nothing after it.
IsCalendarDate(s) ==
    LET d == ParseDateSpec(s) IN d.ok /\ d.rest = <<>>

\* C5: date coercion succeeds if and only if the entire input is a calendar
\* date; a valid date followed by further components fails rather than
\* partially succeeding; every failure is the unnamed MatchError("date", input).
C5_DateIffWholeCalendarDate ==
    (call.op = "match_date" /\ result # Pending) =>
        /\ (result.state = "ok") <=> IsCalendarDate(call.input)
        /\ (\E k \in 0..(Len(call.input) - 1) :
                IsCalendarDate(Take(call.input, k))) => result.state = "err"
        /\ result.state = "err" =>
               result = Err(MatchError(DateLabel, call.input))

\* C6: string coercion is total and the identity, the empty string included,
\* so a Var of type String never fails to match.
C6_StringCoercionIdentity ==
    /\ (call.op = "match_string" /\ result # Pending) =>
           result = Ok(MVString(call.input))
    /\ (SegmentDone /\ call.seg.variant = "Var"
            /\ call.seg.v.seg_type = "String") =>
           /\ result.state = "ok"
           /\ result.val.value = MVString(call.input)

C6_Witness ==
    /\ call.op = "match_string"
    /\ call.input = <<>>
    /\ result = Ok(MVString(<<>>))

\* C7: SegType::try_from maps exactly "" and "string" to String, "number" to
\* Number and "date" to Date; every other token, a differently-cased or
\* whitespace-padded one included, fails with InvalidSegmentType.
C7_TryFromTokenTable ==
    (call.op = "try_from" /\ result # Pending) =>
        /\ call.input \in {<<>>, StringLabel} => result = Ok("String")
        /\ call.input = NumberLabel => result = Ok("Number")
        /\ call.input = DateLabel => result = Ok("Date")
        /\ call.input \notin {<<>>, StringLabel, NumberLabel, DateLabel} =>
               result = Err("InvalidSegmentType")

C7_Witness ==
    /\ call.op = "try_from"
    /\ call.input = <<"D", "a", "t", "e">>
    /\ result = Err("InvalidSegmentType")

\* C8: with_name is first-write-wins: an unnamed error becomes the named error
\* of the first name with expected and got unchanged, a named error is
\* returned unchanged whatever the name, so annotating again changes nothing
\* and a named error never becomes unnamed.
C8_WithNameFirstWriteWins ==
    (call.op = "with_name" /\ applied # <<>>) =>
        LET e == call.err
        IN  /\ result.val.kind = "NamedMatchError"
            /\ e.kind = "MatchError" =>
                   result = Returned(NamedMatchError(applied[1], e.expected, e.got))
            /\ e.kind = "NamedMatchError" => result = Returned(e)

C8_Witness ==
    /\ call.op = "with_name"
    /\ call.err.kind = "MatchError"
    /\ Len(applied) >= 2
    /\ applied[1] # applied[2]
    /\ result.val.name = applied[1]

\* C9: on a successful match the result's name is Some(n) if and only if the
\* segment is a Var named n; a Static or Terminus match has name None.
C9_NamedOnlyForVar ==
    (SegmentDone /\ result.state = "ok") =>
        /\ \A n \in Names :
               (result.val.name = Some(n)) <=>
                   (call.seg.variant = "Var" /\ call.seg.v.name = n)
        /\ call.seg.variant \in {"Static", "Terminus"} => result.val.name = None
        /\ call.seg.variant = "Var" => result.val.name # None

C9_Witness ==
    /\ SegmentDone
    /\ result.state = "ok"
    /\ call.seg = SegVar(Var(Id, "Date"))
    /\ result.val.name = Some(Id)

\* C10: match_segment is total, returning Ok or Err for every segment and
\* input, and a failure is the unnamed MatchError under Static and Terminus
\* and the NamedMatchError carrying the variable's name under Var.
C10_TotalAndErrorsByVariant ==
    /\ (call.op = "match_segment" /\ result = Pending) =>
           Segment_match_segment(call.seg, call.input).state \in {"ok", "err"}
    /\ SegmentDone =>
           /\ result.state \in {"ok", "err"}
           /\ result.state = "err" =>
                  IF call.seg.variant = "Var"
                  THEN /\ result.err.kind = "NamedMatchError"
                       /\ result.err.name = call.seg.v.name
                  ELSE result.err.kind = "MatchError"

C10_Witness ==
    /\ SegmentDone
    /\ call.seg = SegVar(Var(Id, "Date"))
    /\ call.input = Text20210101 \o <<"-", "0", "1">>
    /\ result = Err(NamedMatchError(Id, DateLabel, call.input))

====
